---------------------------- MODULE Spec2Model ----------------------------
(***************************************************************************)
(* A model of the qgis-mcp socket bridge:                                  *)
(*   - the JSON framing both sides use (json.dumps / bytes.decode /        *)
(*     json.loads over an accumulated buffer),                             *)
(*   - the server of src/src/qgis_mcp/server.py (accept loop, per-client   *)
(*     loop, execute_command and its handlers),                            *)
(*   - the client connection manager of src/src/qgis_mcp/connection.py.    *)
(*                                                                         *)
(* A "byte" of the model is one lexical unit of a JSON text (a brace, a    *)
(* comma, a key with its colon, a string or other literal), or one half of *)
(* a string literal that holds a two-byte UTF-8 character. A chunk         *)
(* boundary may fall between any two of them.                              *)
(***************************************************************************)
EXTENDS Integers, Sequences, FiniteSets, TLC

(***************************************************************************)
(* Bounds of the model.                                                    *)
(***************************************************************************)
MaxConns == 2
MaxCalls == 2
MaxFaults == 1
MaxReplies == 1

(***************************************************************************)
(* JSON values, as json.loads returns them and json.dumps takes them.      *)
(***************************************************************************)
Str(s) == [k |-> "str", s |-> s]
Lit(l) == [k |-> "lit", l |-> l]
Obj(m) == [k |-> "obj", m |-> m]
Arr(e) == [k |-> "arr", e |-> e]
HostObject == [k |-> "host"]
None == Lit("null")
True == Lit("true")
False == Lit("false")
EmptyMap == [x \in {} |-> x]
EmptyObj == Obj(EmptyMap)
NonAscii == "e-acute"

IsObj(v) == v.k = "obj"
IsStr(v) == v.k = "str"

\* dict.get(key, default)
DictGet(v, key, default) == IF key \in DOMAIN v.m THEN v.m[key] ELSE default

\* str(x) of a scalar, as an f-string formats it
PyStr(v) ==
  IF v.k = "str" THEN v.s
  ELSE IF v.k = "lit"
       THEN (IF v.l = "null" THEN "None"
             ELSE IF v.l = "true" THEN "True"
             ELSE IF v.l = "false" THEN "False"
             ELSE v.l)
  ELSE IF v.k = "obj" THEN "{..}"
  ELSE IF v.k = "arr" THEN "[..]"
  ELSE "<object>"

(***************************************************************************)
(* Bytes on the wire.                                                      *)
(***************************************************************************)
LBrace == [t |-> "p", v |-> "{"]
RBrace == [t |-> "p", v |-> "}"]
LBrack == [t |-> "p", v |-> "["]
RBrack == [t |-> "p", v |-> "]"]
Comma == [t |-> "p", v |-> ","]
KeyByte(key) == [t |-> "key", v |-> key]
StrByte(s) == [t |-> "str", v |-> s]
LitByte(l) == [t |-> "lit", v |-> l]
\* the ASCII escape json.dumps writes for a non-ASCII string (ensure_ascii)
EscByte(s) == [t |-> "esc", v |-> s]
\* the two halves of a string literal written in raw UTF-8
Utf8Hi(s) == [t |-> "hi", v |-> s]
Utf8Lo(s) == [t |-> "lo", v |-> s]
\* a byte that is not valid UTF-8 anywhere
BadByte == [t |-> "raw", v |-> "xFF"]

\* The order in which the keys of a mapping are written.
KeyOrder ==
  << "type", "params", "status", "result", "message", "layer_id", "visible",
     "path", "name", "provider", "code", "algorithm", "parameters",
     "layerCount", "layers", "id", "zoomed_to", "layer", "removed",
     "executed", "extra" >>

RECURSIVE Serializable(_)
Serializable(v) ==
  IF v.k = "host" THEN FALSE
  ELSE IF v.k = "obj" THEN \A key \in DOMAIN v.m : Serializable(v.m[key])
  ELSE IF v.k = "arr" THEN \A i \in 1..Len(v.e) : Serializable(v.e[i])
  ELSE TRUE

RECURSIVE json_dumps(_)
RECURSIVE DumpMembers(_, _, _)
RECURSIVE DumpElements(_, _)
\* the members of mapping m whose keys are KeyOrder[i..], comma separated
DumpMembers(m, i, first) ==
  IF i > Len(KeyOrder) THEN << >>
  ELSE IF KeyOrder[i] \in DOMAIN m
       THEN (IF first THEN << >> ELSE << Comma >>)
            \o << KeyByte(KeyOrder[i]) >> \o json_dumps(m[KeyOrder[i]])
            \o DumpMembers(m, i + 1, FALSE)
       ELSE DumpMembers(m, i + 1, first)
DumpElements(e, i) ==
  IF i > Len(e) THEN << >>
  ELSE (IF i = 1 THEN << >> ELSE << Comma >>) \o json_dumps(e[i])
       \o DumpElements(e, i + 1)
json_dumps(v) ==
  IF v.k = "str" THEN (IF v.s = NonAscii THEN << EscByte(v.s) >> ELSE << StrByte(v.s) >>)
  ELSE IF v.k = "lit" THEN << LitByte(v.l) >>
  ELSE IF v.k = "obj" THEN << LBrace >> \o DumpMembers(v.m, 1, TRUE) \o << RBrace >>
  ELSE << LBrack >> \o DumpElements(v.e, 1) \o << RBrack >>

(***************************************************************************)
(* bytes.decode('utf-8'): the characters of the text, or a failure         *)
(* (UnicodeDecodeError) when a two-byte character is cut or a byte is      *)
(* invalid.                                                                *)
(***************************************************************************)
RECURSIVE DecodeFrom(_, _)
DecodeFrom(b, i) ==
  IF i > Len(b) THEN [ok |-> TRUE, text |-> << >>]
  ELSE IF b[i].t = "raw" \/ b[i].t = "lo" THEN [ok |-> FALSE, text |-> << >>]
  ELSE IF b[i].t = "hi"
       THEN (IF i + 1 <= Len(b) /\ b[i + 1] = Utf8Lo(b[i].v)
             THEN LET r == DecodeFrom(b, i + 2)
                  IN [ok |-> r.ok, text |-> << StrByte(b[i].v) >> \o r.text]
             ELSE [ok |-> FALSE, text |-> << >>])
  ELSE LET r == DecodeFrom(b, i + 1)
       IN [ok |-> r.ok, text |-> << b[i] >> \o r.text]
decode_utf8(b) == DecodeFrom(b, 1)

(***************************************************************************)
(* The JSON parser: st is "ok" (a value ends before position next),        *)
(* "incomplete" (the text ended inside a value) or "bad" (no continuation  *)
(* makes the text a value). json.loads raises JSONDecodeError for both of  *)
(* the last two, and for a value followed by more text.                    *)
(***************************************************************************)
PFail(st) == [st |-> st, val |-> None, next |-> 0]
POk(v, n) == [st |-> "ok", val |-> v, next |-> n]

RECURSIVE ParseValue(_, _)
RECURSIVE ParseMembers(_, _, _, _)
RECURSIVE ParseElements(_, _, _, _)
ParseValue(s, i) ==
  IF i > Len(s) THEN PFail("incomplete")
  ELSE IF s[i].t = "str" THEN POk(Str(s[i].v), i + 1)
  ELSE IF s[i].t = "esc" THEN POk(Str(s[i].v), i + 1)
  ELSE IF s[i].t = "lit" THEN POk(Lit(s[i].v), i + 1)
  ELSE IF s[i] = LBrace THEN ParseMembers(s, i + 1, EmptyMap, TRUE)
  ELSE IF s[i] = LBrack THEN ParseElements(s, i + 1, << >>, TRUE)
  ELSE PFail("bad")
ParseMembers(s, i, m, first) ==
  IF i > Len(s) THEN PFail("incomplete")
  ELSE IF first /\ s[i] = RBrace THEN POk(Obj(m), i + 1)
  ELSE IF s[i].t = "key"
       THEN LET r == ParseValue(s, i + 1)
                \* a repeated key keeps its last value
                m2 == [x \in (DOMAIN m) \cup {s[i].v} |->
                         IF x = s[i].v THEN r.val ELSE m[x]]
            IN IF r.st # "ok" THEN r
               ELSE IF r.next > Len(s) THEN PFail("incomplete")
               ELSE IF s[r.next] = RBrace THEN POk(Obj(m2), r.next + 1)
               ELSE IF s[r.next] = Comma THEN ParseMembers(s, r.next + 1, m2, FALSE)
               ELSE PFail("bad")
  ELSE PFail("bad")
ParseElements(s, i, e, first) ==
  IF i > Len(s) THEN PFail("incomplete")
  ELSE IF first /\ s[i] = RBrack THEN POk(Arr(e), i + 1)
  ELSE LET r == ParseValue(s, i)
       IN IF r.st # "ok" THEN r
          ELSE IF r.next > Len(s) THEN PFail("incomplete")
          ELSE IF s[r.next] = RBrack THEN POk(Arr(Append(e, r.val)), r.next + 1)
          ELSE IF s[r.next] = Comma
               THEN ParseElements(s, r.next + 1, Append(e, r.val), FALSE)
          ELSE PFail("bad")

\* json.loads(text): [ok, val]; ok is FALSE where it raises JSONDecodeError
json_loads(text) ==
  LET r == ParseValue(text, 1)
  IN IF r.st = "ok" /\ r.next = Len(text) + 1
     THEN [ok |-> TRUE, val |-> r.val]
     ELSE [ok |-> FALSE, val |-> None]

\* json.loads(buffer.decode('utf-8')): "value", "incomplete" (JSONDecodeError)
\* or "unicode" (UnicodeDecodeError, which is not a JSONDecodeError)
LoadBytes(b) ==
  LET d == decode_utf8(b)
      r == json_loads(d.text)
  IN IF ~d.ok THEN [kind |-> "unicode", val |-> None]
     ELSE IF r.ok THEN [kind |-> "value", val |-> r.val]
     ELSE [kind |-> "incomplete", val |-> None]

(***************************************************************************)
(* The host project (QgsProject.instance()), as far as the handlers read   *)
(* and change it: the ids of its layers and which of them are visible. A   *)
(* layer's name is its id. The host gives a new layer the first id of      *)
(* LayerOrder the project does not hold.                                   *)
(***************************************************************************)
LayerOrder == << "L1", "L2" >>
LayerIds == { LayerOrder[i] : i \in 1..Len(LayerOrder) }
\* sources the host opens as a valid layer (layer.isValid())
GoodPaths == { "/data/ok.shp" }
\* code fragments by what exec() does with them; any other fragment raises
CodeOk == "pass"
CodeClear == "QgsProject.instance().clear()"
CodeExit == "raise SystemExit"
\* processing algorithms by what processing.run() does; any other raises
AlgOk == "native:ok"
AlgHost == "native:layer"

NumStr(n) == IF n = 0 THEN "0" ELSE IF n = 1 THEN "1" ELSE IF n = 2 THEN "2" ELSE "3"

ProjectFull(project) == LayerIds \subseteq project.layers
FreshId(project) ==
  LayerOrder[CHOOSE i \in 1..Len(LayerOrder) :
               /\ LayerOrder[i] \notin project.layers
               /\ \A j \in 1..(i - 1) : LayerOrder[j] \in project.layers]

\* what a handler call comes to: it returns val, raises an Exception whose
\* text is val, or lets a BaseException that is no Exception escape
Return(v, project) == [kind |-> "return", val |-> v, project |-> project]
Raise(msg, project) == [kind |-> "raise", val |-> msg, project |-> project]
Exit(project) == [kind |-> "exit", val |-> "SystemExit", project |-> project]

\* QgsProject.instance().mapLayer(layer_id) finds a layer
HasLayer(project, layer_id) == IsStr(layer_id) /\ layer_id.s \in project.layers

get_project_info(p, project) ==
  Return(Obj("layerCount" :> Lit(NumStr(Cardinality(project.layers)))), project)

LayerInfo(project, id) ==
  Obj("id" :> Str(id) @@
      "visible" :> (IF id \in project.visible THEN True ELSE False))
RECURSIVE LayerInfos(_, _)
LayerInfos(project, i) ==
  IF i > Len(LayerOrder) THEN << >>
  ELSE (IF LayerOrder[i] \in project.layers
        THEN << LayerInfo(project, LayerOrder[i]) >> ELSE << >>)
       \o LayerInfos(project, i + 1)
get_layers(p, project) ==
  Return(Obj("layers" :> Arr(LayerInfos(project, 1))), project)

LayerNotFound(layer_id) == "Layer not found: " \o PyStr(layer_id)
LayerFailedToLoad(path) == "Layer failed to load: " \o PyStr(path)

\* AddLayer with addMapLayer before the isValid test
AddLayer_RegisterFirst(p, project) ==
  LET id == FreshId(project)
      added == [layers |-> project.layers \cup {id}, visible |-> project.visible \cup {id}]
  IN IF ~(IsStr(p["path"]) /\ p["path"].s \in GoodPaths)
     THEN Raise(LayerFailedToLoad(p["path"]), added)
     ELSE Return(Obj("id" :> Str(id) @@ "name" :> p["name"]), added)

AddLayer(p, project) ==
  IF ~(IsStr(p["path"]) /\ p["path"].s \in GoodPaths)
  THEN Raise(LayerFailedToLoad(p["path"]), project)
  ELSE LET id == FreshId(project)
       IN Return(Obj("id" :> Str(id) @@ "name" :> p["name"]),
                 [layers |-> project.layers \cup {id},
                  visible |-> project.visible \cup {id}])
add_vector_layer(p, project) == AddLayer(p, project)
add_raster_layer(p, project) == AddLayer(p, project)

zoom_to_layer(p, project) ==
  IF ~HasLayer(project, p["layer_id"])
  THEN Raise(LayerNotFound(p["layer_id"]), project)
  ELSE Return(Obj("zoomed_to" :> p["layer_id"]), project)

set_visibility(p, project) ==
  IF ~HasLayer(project, p["layer_id"])
  THEN Raise(LayerNotFound(p["layer_id"]), project)
  ELSE IF p["visible"] \notin {True, False}
  THEN Raise("setItemVisibilityChecked(bool): argument 1 has unexpected type", project)
  ELSE Return(Obj("layer" :> p["layer_id"] @@ "visible" :> p["visible"]),
              [project EXCEPT !.visible =
                 IF p["visible"] = True THEN @ \cup {p["layer_id"].s}
                 ELSE @ \ {p["layer_id"].s}])

remove_layer(p, project) ==
  IF ~HasLayer(project, p["layer_id"])
  THEN Raise(LayerNotFound(p["layer_id"]), project)
  ELSE Return(Obj("removed" :> p["layer_id"]),
              [layers |-> project.layers \ {p["layer_id"].s},
               visible |-> project.visible \ {p["layer_id"].s}])

execute_code(p, project) ==
  IF p["code"] = Str(CodeOk) THEN Return(Obj("executed" :> True), project)
  ELSE IF p["code"] = Str(CodeClear)
  THEN Return(Obj("executed" :> True), [layers |-> {}, visible |-> {}])
  ELSE IF p["code"] = Str(CodeExit) THEN Exit(project)
  ELSE Raise("Code execution error: " \o PyStr(p["code"]), project)

run_processing_algorithm(p, project) ==
  IF p["algorithm"] = Str(AlgOk)
  THEN Return(Obj("algorithm" :> p["algorithm"] @@ "result" :> EmptyObj), project)
  ELSE IF p["algorithm"] = Str(AlgHost)
  THEN Return(Obj("algorithm" :> p["algorithm"] @@
                  "result" :> Obj("layer" :> HostObject)), project)
  ELSE Raise("Error running algorithm: " \o PyStr(p["algorithm"]), project)

(***************************************************************************)
(* The handler registry of execute_command, and each handler's signature.  *)
(***************************************************************************)
HandlerNames ==
  { "get_project_info", "get_layers", "add_vector_layer", "add_raster_layer",
    "zoom_to_layer", "set_visibility", "remove_layer", "execute_code",
    "run_processing_algorithm" }

Required(h) ==
  IF h \in {"add_vector_layer", "add_raster_layer"} THEN {"path", "name"}
  ELSE IF h \in {"zoom_to_layer", "remove_layer"} THEN {"layer_id"}
  ELSE IF h = "set_visibility" THEN {"layer_id", "visible"}
  ELSE IF h = "execute_code" THEN {"code"}
  ELSE IF h = "run_processing_algorithm" THEN {"algorithm", "parameters"}
  ELSE {}
Optional(h) ==
  IF h \in {"add_vector_layer", "add_raster_layer"} THEN {"provider"} ELSE {}

\* the handler's body, its parameters bound
CallHandler(h, p, project) ==
  IF h = "get_project_info" THEN get_project_info(p, project)
  ELSE IF h = "get_layers" THEN get_layers(p, project)
  ELSE IF h = "add_vector_layer" THEN add_vector_layer(p, project)
  ELSE IF h = "add_raster_layer" THEN add_raster_layer(p, project)
  ELSE IF h = "zoom_to_layer" THEN zoom_to_layer(p, project)
  ELSE IF h = "set_visibility" THEN set_visibility(p, project)
  ELSE IF h = "remove_layer" THEN remove_layer(p, project)
  ELSE IF h = "execute_code" THEN execute_code(p, project)
  ELSE run_processing_algorithm(p, project)

\* handler(**params): the call fails (TypeError) before the body runs when
\* params is no mapping or does not fit the signature
Invoke(h, params, project) ==
  IF ~IsObj(params)
  THEN Raise("argument after ** must be a mapping", project)
  ELSE IF ~(Required(h) \subseteq DOMAIN params.m)
  THEN Raise(h \o "() missing required positional argument", project)
  ELSE IF ~(DOMAIN params.m \subseteq Required(h) \cup Optional(h))
  THEN Raise(h \o "() got an unexpected keyword argument", project)
  ELSE CallHandler(h, params.m, project)

\* the handler body ran (the call got past the binding of its parameters)
Invoked(h, params) ==
  /\ IsObj(params)
  /\ Required(h) \subseteq DOMAIN params.m
  /\ DOMAIN params.m \subseteq Required(h) \cup Optional(h)

SuccessResponse(result) == Obj("status" :> Str("success") @@ "result" :> result)
ErrorResponse(msg) == Obj("status" :> Str("error") @@ "message" :> Str(msg))
UnknownCommand(cmd_type) == "Unknown command type: " \o PyStr(cmd_type)

\* handlers.get(cmd_type) needs a hashable key
Hashable(v) == v.k \in {"str", "lit"}
HandlerFor(cmd_type) ==
  IF IsStr(cmd_type) /\ cmd_type.s \in HandlerNames THEN cmd_type.s ELSE "none"

(***************************************************************************)
(* execute_command(command): the response it returns and the project it    *)
(* leaves; kind "exit" when a BaseException that is no Exception passes    *)
(* its except clause and it returns nothing. handler names the handler     *)
(* whose body ran, "none" if none did.                                     *)
(***************************************************************************)
Outcome(kind, response, project, handler) ==
  [kind |-> kind, response |-> response, project |-> project, handler |-> handler]

execute_command(command, project) ==
  IF ~IsObj(command)
  THEN Outcome("return", ErrorResponse("object has no attribute 'get'"), project, "none")
  ELSE LET cmd_type == DictGet(command, "type", None)
           params == DictGet(command, "params", EmptyObj)
           h == HandlerFor(cmd_type)
           r == Invoke(h, params, project)
           ran == IF Invoked(h, params) THEN h ELSE "none"
       IN IF ~Hashable(cmd_type)
          THEN Outcome("return", ErrorResponse("unhashable type"), project, "none")
          ELSE IF h = "none"
          THEN Outcome("return", ErrorResponse(UnknownCommand(cmd_type)), project, "none")
          ELSE IF r.kind = "return"
          THEN Outcome("return", SuccessResponse(r.val), r.project, ran)
          ELSE IF r.kind = "raise"
          THEN Outcome("return", ErrorResponse(r.val), r.project, ran)
          ELSE Outcome("exit", None, r.project, ran)

\* the model's bound on layers: a handler that adds a layer needs a free id
NeedsFreshId(command) ==
  /\ IsObj(command)
  /\ DictGet(command, "type", None) \in {Str("add_vector_layer"), Str("add_raster_layer")}
  /\ IsObj(DictGet(command, "params", EmptyObj))
  /\ "path" \in DOMAIN DictGet(command, "params", EmptyObj).m
CanExecute(command, project) == ~(NeedsFreshId(command) /\ ProjectFull(project))

(***************************************************************************)
(* plugin/server.py: the same server, its print calls replaced by calls of *)
(* a logger whose handler passes the record to the host's message log.     *)
(* Its decoding step and its dispatcher, as that module writes them.       *)
(***************************************************************************)
\* a logger call that raises instead of returning
plugin_log_Raises(v) == FALSE

\* logger.info, .debug, .warning, .error: the message is formatted, the
\* record handed to QgsMessageLog, and the call returns (TRUE)
plugin_log(v) == TRUE

\* plugin/server.py, execute_command
plugin_execute_command(command, project) ==
  IF ~IsObj(command)
  THEN Outcome("return", ErrorResponse("object has no attribute 'get'"), project, "none")
  ELSE LET cmd_type == DictGet(command, "type", None)
           params == DictGet(command, "params", EmptyObj)
           h == HandlerFor(cmd_type)
           r == Invoke(h, params, project)
           ran == IF Invoked(h, params) THEN h ELSE "none"
       IN IF ~Hashable(cmd_type)
          THEN Outcome("return", ErrorResponse("unhashable type"), project, "none")
          ELSE IF h = "none"
          THEN IF plugin_log(cmd_type)
               THEN Outcome("return", ErrorResponse(UnknownCommand(cmd_type)), project, "none")
               ELSE Outcome("return", ErrorResponse("logging"), project, "none")
          ELSE IF ~plugin_log(cmd_type)
          THEN Outcome("return", ErrorResponse("logging"), project, "none")
          ELSE IF r.kind = "return"
          THEN IF plugin_log(r.val)
               THEN Outcome("return", SuccessResponse(r.val), r.project, ran)
               ELSE Outcome("return", ErrorResponse("logging"), r.project, ran)
          ELSE IF r.kind = "raise"
          THEN Outcome("return", ErrorResponse(r.val), r.project, ran)
          ELSE Outcome("exit", None, r.project, ran)

\* plugin/server.py, _handle_client: what the loop body does with the buffer
\* once data was appended to it
plugin_AfterAppend(buf) ==
  LET r == LoadBytes(buf)
  IN IF r.kind = "value"
     THEN [next |-> "exec", buffer |-> << >>, command |-> r.val]
     ELSE IF r.kind = "incomplete"
     THEN IF plugin_log("Received incomplete JSON, waiting for more data")
          THEN [next |-> "client_loop", buffer |-> buf, command |-> None]
          ELSE [next |-> "error", buffer |-> buf, command |-> None]
     ELSE [next |-> "error", buffer |-> buf, command |-> None]

(***************************************************************************)
(* State.                                                                  *)
(*   QGISMCPServer: running, srvSock (self.socket), buffer (self.buffer),  *)
(*     and its thread: spc (where it is), client (the accepted socket of   *)
(*     _handle_client), command / response (the locals of its loop body),  *)
(*     invoked (the handler whose body the last execute_command ran),      *)
(*     dispatched (how many commands the loop has decoded so far), reads   *)
(*     (how many chunks it has received from the client it serves).        *)
(*   The host: project.                                                    *)
(*   The transport: conns (per connection: the bytes in flight each way,   *)
(*     the state of each end, whether it is broken) and backlog (the       *)
(*     connections the listening socket has not accepted yet).             *)
(*   QGISConnection: sock (self.sock, 0 for None), and the call in         *)
(*     progress: cpc, call (the command), chunks, outcome (what the last   *)
(*     call came to).                                                      *)
(*   The plugin's main thread: mpc (where it is in stop()).                *)
(*   The MCP process: qgis_connection (whether the global _qgis_connection *)
(*     holds a manager; the manager's socket is sock) and gpc (where a     *)
(*     call of get_qgis_connection is).                                    *)
(*   calls, faults, sends count what the bounds limit.                     *)
(***************************************************************************)
VARIABLES running, srvSock, spc, buffer, client, command, response, invoked,
          dispatched, reads, project, conns, backlog, sock, cpc, call, chunks, outcome,
          calls, faults, sends, mpc, qgis_connection, gpc

serverVars == << running, srvSock, spc, buffer, client, command, response, invoked,
                dispatched, reads, project >>
clientVars == << sock, cpc, call, chunks, outcome, calls >>
netVars == << conns, backlog >>
vars == << running, srvSock, spc, buffer, client, command, response, invoked,
           dispatched, reads, project, conns, backlog, sock, cpc, call, chunks, outcome,
           calls, faults, sends, mpc, qgis_connection, gpc >>

ConnIds == 1..MaxConns
\* socket.recv(8192)
RecvSize == 8192
\* socket.listen(1)
Backlog == 1

Min(a, b) == IF a < b THEN a ELSE b

NoConn == [cli |-> "none", srv |-> "none", c2s |-> << >>, s2c |-> << >>, broken |-> FALSE]
NewConn == [cli |-> "open", srv |-> "queued", c2s |-> << >>, s2c |-> << >>, broken |-> FALSE]
Unused == { c \in ConnIds : conns[c].cli = "none" }
NextConn == CHOOSE c \in Unused : \A d \in Unused : c <= d

\* a connection attempt can complete: the server listens and has room
Listening == srvSock = "listening" /\ Len(backlog) < Backlog

\* client.close() on the server's accepted socket
CloseAccepted(cs, c) == [cs EXCEPT ![c].srv = "closed"]

(***************************************************************************)
(* The server thread: _run_server and _handle_client.                      *)
(***************************************************************************)
\* AcceptLoop without the finally clause of _run_server
AcceptLoop_NoClose ==
  /\ spc = "accept_loop"
  /\ spc' = IF running THEN "accept" ELSE "done"
  /\ UNCHANGED << running, srvSock, conns, backlog, buffer, client, command, response, invoked,
                  dispatched, reads, project, clientVars, faults, sends, mpc, qgis_connection, gpc >>

\* `while self.running:` of _run_server; on exit the finally clause closes
\* the listening socket and the thread ends
AcceptLoop ==
  /\ spc = "accept_loop"
  /\ IF running
     THEN /\ spc' = "accept"
          /\ UNCHANGED << srvSock, conns, backlog >>
     ELSE /\ spc' = "done"
          /\ srvSock' = "closed"
          /\ backlog' = << >>
          /\ conns' = [c \in ConnIds |->
                         IF conns[c].srv = "queued"
                         THEN [conns[c] EXCEPT !.srv = "closed", !.broken = TRUE]
                         ELSE conns[c]]
  /\ UNCHANGED << running, buffer, client, command, response, invoked, dispatched, reads, project,
                  clientVars, faults, sends, mpc, qgis_connection, gpc >>

\* self.socket.accept() returns a pending connection
AcceptClient ==
  /\ spc = "accept"
  /\ backlog # << >>
  /\ client' = Head(backlog)
  /\ backlog' = Tail(backlog)
  /\ conns' = [conns EXCEPT ![Head(backlog)].srv = "open"]
  /\ spc' = "client_loop"
  /\ reads' = 0
  /\ UNCHANGED << running, srvSock, buffer, command, response, invoked, dispatched, project,
                  clientVars, faults, sends, mpc, qgis_connection, gpc >>

\* self.socket.accept() times out (socket.timeout): continue
AcceptTimeout ==
  /\ spc = "accept"
  /\ backlog = << >>
  /\ spc' = "accept_loop"
  /\ UNCHANGED << running, srvSock, buffer, client, command, response, invoked, dispatched, reads,
                  project, netVars, clientVars, faults, sends, mpc, qgis_connection, gpc >>

\* leaving _handle_client without the finally clause that closes the socket
LeaveClient_NoClose ==
  /\ conns' = conns
  /\ client' = 0
  /\ spc' = "accept_loop"

\* leaving _handle_client: the finally clause closes the client socket and
\* _run_server goes round its loop
LeaveClient ==
  /\ conns' = CloseAccepted(conns, client)
  /\ client' = 0
  /\ spc' = "accept_loop"

\* ClientLoop with `while True:` for `while self.running:`
ClientLoop_Forever ==
  /\ spc = "client_loop"
  /\ spc' = "recv"
  /\ UNCHANGED << running, srvSock, buffer, client, command, response, invoked, dispatched, reads,
                  project, netVars, clientVars, faults, sends, mpc, qgis_connection, gpc >>

\* `while self.running:` of _handle_client
ClientLoop ==
  /\ spc = "client_loop"
  /\ IF running
     THEN spc' = "recv" /\ UNCHANGED << client, conns >>
     ELSE LeaveClient
  /\ UNCHANGED << running, srvSock, buffer, command, response, invoked, dispatched, reads, project,
                  backlog, clientVars, faults, sends, mpc, qgis_connection, gpc >>

\* AfterAppend with `self.buffer = b''` moved out of the try block: the buffer
\* is emptied after every parse, failed or not
AfterAppend_Reset(buf) ==
  LET r == LoadBytes(buf)
  IN IF r.kind = "value"
     THEN [next |-> "exec", buffer |-> << >>, command |-> r.val]
     ELSE IF r.kind = "incomplete"
     THEN [next |-> "client_loop", buffer |-> << >>, command |-> None]
     ELSE [next |-> "error", buffer |-> << >>, command |-> None]

\* what the loop body does with the buffer once data was appended to it
AfterAppend(buf) ==
  LET r == LoadBytes(buf)
  IN IF r.kind = "value"
     THEN [next |-> "exec", buffer |-> << >>, command |-> r.val]
     ELSE IF r.kind = "incomplete"
     THEN [next |-> "client_loop", buffer |-> buf, command |-> None]
     ELSE [next |-> "error", buffer |-> buf, command |-> None]

\* data = client.recv(8192) returns some k bytes of those in flight;
\* self.buffer += data; then the parse
RecvData ==
  /\ spc = "recv"
  /\ ~conns[client].broken
  /\ \E k \in 1..Min(Len(conns[client].c2s), RecvSize) :
       LET data == SubSeq(conns[client].c2s, 1, k)
           rest == SubSeq(conns[client].c2s, k + 1, Len(conns[client].c2s))
           a == AfterAppend(buffer \o data)
       IN /\ buffer' = a.buffer
          /\ command' = a.command
          /\ dispatched' = IF a.next = "exec" THEN dispatched + 1 ELSE dispatched
          /\ reads' = reads + 1
          /\ IF a.next = "error"
             THEN /\ conns' = CloseAccepted([conns EXCEPT ![client].c2s = rest], client)
                  /\ client' = 0
                  /\ spc' = "accept_loop"
             ELSE /\ conns' = [conns EXCEPT ![client].c2s = rest]
                  /\ spc' = a.next
                  /\ UNCHANGED client
  /\ UNCHANGED << running, srvSock, response, invoked, project, backlog,
                  clientVars, faults, sends, mpc, qgis_connection, gpc >>

\* client.recv(8192) returns b'': the peer closed; break
RecvEof ==
  /\ spc = "recv"
  /\ ~conns[client].broken
  /\ conns[client].c2s = << >>
  /\ conns[client].cli = "closed"
  /\ LeaveClient
  /\ UNCHANGED << running, srvSock, buffer, command, response, invoked, dispatched, reads, project,
                  backlog, clientVars, faults, sends, mpc, qgis_connection, gpc >>

\* client.recv(8192) raises (connection reset): except Exception
RecvError ==
  /\ spc = "recv"
  /\ conns[client].broken
  /\ LeaveClient
  /\ UNCHANGED << running, srvSock, buffer, command, response, invoked, dispatched, reads, project,
                  backlog, clientVars, faults, sends, mpc, qgis_connection, gpc >>

\* response = self.execute_command(command). A BaseException that is no
\* Exception passes every except clause: both finally clauses run (the client
\* socket and the listening socket are closed) and the thread ends, running
\* still set.
Execute ==
  /\ spc = "exec"
  /\ CanExecute(command, project)
  /\ LET o == execute_command(command, project)
     IN /\ project' = o.project
        /\ invoked' = o.handler
        /\ command' = None
        /\ IF o.kind = "return"
           THEN /\ response' = o.response
                /\ spc' = "send"
                /\ UNCHANGED << client, conns, backlog, srvSock >>
           ELSE /\ response' = None
                /\ spc' = "dead"
                /\ client' = 0
                /\ srvSock' = "closed"
                /\ backlog' = << >>
                /\ conns' = [c \in ConnIds |->
                               IF c = client THEN [conns[c] EXCEPT !.srv = "closed"]
                               ELSE IF conns[c].srv = "queued"
                               THEN [conns[c] EXCEPT !.srv = "closed", !.broken = TRUE]
                               ELSE conns[c]]
  /\ UNCHANGED << running, buffer, dispatched, reads, clientVars, faults, sends, mpc, qgis_connection, gpc >>

\* json.dumps(response) raises TypeError: except Exception, leave
SendUnserializable ==
  /\ spc = "send"
  /\ ~Serializable(response)
  /\ response' = None
  /\ LeaveClient
  /\ UNCHANGED << running, srvSock, buffer, command, invoked, dispatched, reads, project, backlog,
                  clientVars, faults, sends, mpc, qgis_connection, gpc >>

\* client.sendall(response_json.encode('utf-8'))
SendResponse ==
  /\ spc = "send"
  /\ Serializable(response)
  /\ ~conns[client].broken
  /\ conns' = [conns EXCEPT ![client].s2c = @ \o json_dumps(response)]
  /\ response' = None
  /\ spc' = "client_loop"
  /\ UNCHANGED << running, srvSock, buffer, client, command, invoked, dispatched, reads, project,
                  backlog, clientVars, faults, sends, mpc, qgis_connection, gpc >>

\* client.sendall raises (broken pipe, connection reset): except Exception
SendError ==
  /\ spc = "send"
  /\ Serializable(response)
  /\ conns[client].broken \/ conns[client].cli = "closed"
  /\ response' = None
  /\ LeaveClient
  /\ UNCHANGED << running, srvSock, buffer, command, invoked, dispatched, reads, project, backlog,
                  clientVars, faults, sends, mpc, qgis_connection, gpc >>

(***************************************************************************)
(* start() and stop(), called by the plugin on the main thread. mpc is the *)
(* main thread's place in stop().                                          *)
(***************************************************************************)
\* _run_server up to its loop: the socket is created, bound and made to
\* listen; when bind or listen raises, `except Exception` is followed by
\* the finally clause, which closes the socket, and the thread ends
Bind ==
  /\ spc = "start"
  /\ \/ srvSock' = "listening" /\ spc' = "accept_loop"
     \/ srvSock' = "closed" /\ spc' = "done"
  /\ UNCHANGED << running, buffer, client, command, response, invoked, dispatched, reads,
                  project, netVars, clientVars, faults, sends, mpc, qgis_connection, gpc >>

\* the thread has terminated
ThreadEnded == spc \in {"done", "dead"}

\* the thread is where it can stay for longer than any timeout: in recv on
\* the client socket (settimeout(None)), in a handler, or in sendall
ThreadBlocked == spc \in {"recv", "exec", "send"}

\* stop(): self.running = False
StopFlag ==
  /\ mpc = "idle"
  /\ running
  /\ running' = FALSE
  /\ mpc' = "join"
  /\ UNCHANGED << srvSock, spc, buffer, client, command, response, invoked, dispatched, reads,
                  project, netVars, clientVars, faults, sends, qgis_connection, gpc >>

\* stop(): self.thread.join(timeout=2.0) returns, the thread terminated
JoinEnded ==
  /\ mpc = "join"
  /\ ThreadEnded
  /\ mpc' = "close"
  /\ UNCHANGED << serverVars, netVars, clientVars, faults, sends, qgis_connection, gpc >>

\* stop(): self.thread.join(timeout=2.0) returns after its two seconds, the
\* thread still alive
JoinTimeout ==
  /\ mpc = "join"
  /\ ThreadBlocked
  /\ mpc' = "close"
  /\ UNCHANGED << serverVars, netVars, clientVars, faults, sends, qgis_connection, gpc >>

\* stop(): `if self.socket: self.socket.close()`; stop() returns
StopClose ==
  /\ mpc = "close"
  /\ srvSock' = "closed"
  /\ backlog' = << >>
  /\ conns' = [c \in ConnIds |->
                 IF conns[c].srv = "queued"
                 THEN [conns[c] EXCEPT !.srv = "closed", !.broken = TRUE]
                 ELSE conns[c]]
  /\ mpc' = "returned"
  /\ UNCHANGED << running, spc, buffer, client, command, response, invoked, dispatched, reads,
                  project, clientVars, faults, sends, qgis_connection, gpc >>

(***************************************************************************)
(* QGISConnection.                                                         *)
(***************************************************************************)
NoOutcome == [kind |-> "none", val |-> None]
Result(v) == [kind |-> "result", val |-> v]
Error(msg) == [kind |-> "error", val |-> Str(msg)]
Connected(b) == [kind |-> "connect", val |-> IF b THEN True ELSE False]
Disconnected == [kind |-> "disconnect", val |-> None]

NotConnected == "Not connected to QGIS"
UnknownError == "Unknown error from QGIS"
EndOfStream == "Unexpected end of data stream from QGIS"

\* command = {"type": command_type, "params": params or {}}
MakeCommand(command_type, params) ==
  Obj("type" :> Str(command_type) @@
      "params" :> (IF params \in {None, EmptyObj} THEN EmptyObj ELSE params))

\* connect() past its `if self.sock` test: socket.connect succeeds
OpenConnection ==
  /\ Listening
  /\ Unused # {}
  /\ conns' = [conns EXCEPT ![NextConn] = NewConn]
  /\ backlog' = Append(backlog, NextConn)
  /\ sock' = NextConn

\* FailConnection without `self.sock = None`: the manager keeps the socket
\* object whose connect failed
FailConnection_Stale ==
  /\ Unused # {}
  /\ conns' = [conns EXCEPT ![NextConn] = [NewConn EXCEPT !.broken = TRUE]]
  /\ sock' = NextConn
  /\ UNCHANGED backlog

\* connect() past its `if self.sock` test: socket.connect raises;
\* self.sock = None
FailConnection ==
  /\ sock' = 0
  /\ UNCHANGED << conns, backlog >>

\* connect() without its `if self.sock: return True` test
connect_Reopen ==
  /\ cpc = "idle"
  /\ calls < MaxCalls
  /\ calls' = calls + 1
  /\ \/ OpenConnection /\ outcome' = Connected(TRUE)
     \/ FailConnection /\ outcome' = Connected(FALSE)
  /\ UNCHANGED << serverVars, cpc, call, chunks, faults, sends, mpc, qgis_connection, gpc >>

\* connect(), called on its own
connect ==
  /\ cpc = "idle"
  /\ calls < MaxCalls
  /\ calls' = calls + 1
  /\ \/ sock # 0 /\ outcome' = Connected(TRUE) /\ UNCHANGED << sock, conns, backlog >>
     \/ sock = 0 /\ OpenConnection /\ outcome' = Connected(TRUE)
     \/ sock = 0 /\ FailConnection /\ outcome' = Connected(FALSE)
  /\ UNCHANGED << serverVars, cpc, call, chunks, faults, sends, mpc, qgis_connection, gpc >>

\* disconnect() whose `self.sock = None` follows the try statement instead of
\* standing in its finally clause, and whose except clause re-raises
disconnect_NoFinally ==
  /\ cpc = "idle"
  /\ calls < MaxCalls
  /\ calls' = calls + 1
  /\ IF sock # 0
     THEN \/ /\ conns' = [conns EXCEPT ![sock].cli = "closed", ![sock].s2c = << >>]
             /\ sock' = 0
             /\ outcome' = Disconnected
          \/ /\ outcome' = Error("close failed")
             /\ UNCHANGED << sock, conns >>
     ELSE /\ outcome' = Disconnected
          /\ UNCHANGED << sock, conns >>
  /\ UNCHANGED << serverVars, backlog, cpc, call, chunks, faults, sends, mpc, qgis_connection, gpc >>

\* disconnect(): `if self.sock:` close it, log what close raises, and in the
\* finally clause self.sock = None. A socket whose close raised is left to
\* the collector.
disconnect ==
  /\ cpc = "idle"
  /\ calls < MaxCalls
  /\ calls' = calls + 1
  /\ outcome' = Disconnected
  /\ IF sock # 0
     THEN /\ \/ conns' = [conns EXCEPT ![sock].cli = "closed", ![sock].s2c = << >>]
             \/ conns' = [conns EXCEPT ![sock].cli = "leaked"]
          /\ sock' = 0
     ELSE UNCHANGED << sock, conns >>
  /\ UNCHANGED << serverVars, backlog, cpc, call, chunks, faults, sends, mpc, qgis_connection, gpc >>

\* send_command(command_type, params) up to the try block:
\* `if not self.sock and not self.connect(): raise ConnectionError`
BeginCommand(cmd) ==
  /\ cpc = "idle"
  /\ calls < MaxCalls
  /\ calls' = calls + 1
  /\ chunks' = << >>
  /\ \/ /\ sock # 0
        /\ UNCHANGED << sock, conns, backlog >>
        /\ cpc' = "send" /\ call' = cmd /\ outcome' = NoOutcome
     \/ /\ sock = 0
        /\ OpenConnection
        /\ cpc' = "send" /\ call' = cmd /\ outcome' = NoOutcome
     \/ /\ sock = 0
        /\ FailConnection
        /\ cpc' = "idle" /\ call' = None /\ outcome' = Error(NotConnected)
  /\ UNCHANGED << serverVars, faults, sends, mpc, qgis_connection, gpc >>

\* the except clause of send_command without `self.sock = None`
DropSocket_Keep(cs) ==
  /\ conns' = cs
  /\ sock' = sock

\* `self.sock = None` in the except clause of send_command: the socket
\* object loses its last reference and is closed when it is collected.
\* cs is the transport as the failed operation left it.
DropSocket(cs) ==
  /\ conns' = [cs EXCEPT ![sock].cli = "leaked"]
  /\ sock' = 0

\* the except clause of send_command: self.sock = None; raise
FailCommand(cs, msg) ==
  /\ DropSocket(cs)
  /\ outcome' = Error(msg)
  /\ cpc' = "idle"
  /\ call' = None
  /\ UNCHANGED chunks

\* send_command that does not wait for the response to a get_project_info
SendCommand_ProbeNoWait ==
  /\ cpc = "send"
  /\ ~conns[sock].broken
  /\ conns' = [conns EXCEPT ![sock].c2s = @ \o json_dumps(call)]
  /\ IF call = MakeCommand("get_project_info", None)
     THEN cpc' = "idle" /\ call' = None /\ outcome' = Result(EmptyObj)
     ELSE cpc' = "recv" /\ UNCHANGED << call, outcome >>
  /\ UNCHANGED << serverVars, backlog, sock, chunks, calls, faults, sends, mpc, qgis_connection, gpc >>

\* self.sock.sendall(json.dumps(command).encode('utf-8'))
SendCommand ==
  /\ cpc = "send"
  /\ ~conns[sock].broken
  /\ conns' = [conns EXCEPT ![sock].c2s = @ \o json_dumps(call)]
  /\ cpc' = "recv"
  /\ UNCHANGED << serverVars, backlog, sock, call, chunks, outcome, calls, faults, sends, mpc, qgis_connection, gpc >>

\* sendall raises
SendCommandError ==
  /\ cpc = "send"
  /\ conns[sock].broken \/ conns[sock].srv = "closed"
  /\ FailCommand(conns, "socket error")
  /\ UNCHANGED << serverVars, backlog, calls, faults, sends, mpc, qgis_connection, gpc >>

\* AfterChunk with response["result"] for response.get("result", {})
AfterChunk_Strict(data) ==
  LET r == LoadBytes(data)
  IN IF r.kind = "incomplete" THEN [next |-> "recv", val |-> None]
     ELSE IF r.kind = "unicode"
     THEN [next |-> "fail", val |-> Str("'utf-8' codec can't decode")]
     ELSE IF ~IsObj(r.val)
     THEN [next |-> "fail", val |-> Str("object has no attribute 'get'")]
     ELSE IF DictGet(r.val, "status", None) = Str("error")
     THEN [next |-> "fail",
           val |-> Str(PyStr(DictGet(r.val, "message", Str(UnknownError))))]
     ELSE IF "result" \notin DOMAIN r.val.m
     THEN [next |-> "fail", val |-> Str("KeyError: 'result'")]
     ELSE [next |-> "return", val |-> r.val.m["result"]]

\* what send_command does with the bytes received so far
AfterChunk(data) ==
  LET r == LoadBytes(data)
  IN IF r.kind = "incomplete" THEN [next |-> "recv", val |-> None]
     ELSE IF r.kind = "unicode"
     THEN [next |-> "fail", val |-> Str("'utf-8' codec can't decode")]
     ELSE IF ~IsObj(r.val)
     THEN [next |-> "fail", val |-> Str("object has no attribute 'get'")]
     ELSE IF DictGet(r.val, "status", None) = Str("error")
     THEN [next |-> "fail",
           val |-> Str(PyStr(DictGet(r.val, "message", Str(UnknownError))))]
     ELSE [next |-> "return", val |-> DictGet(r.val, "result", EmptyObj)]

\* chunk = self.sock.recv(8192) returns some k bytes; chunks.append(chunk);
\* then the parse of b''.join(chunks)
ReceiveChunk ==
  /\ cpc = "recv"
  /\ ~conns[sock].broken
  /\ \E k \in 1..Min(Len(conns[sock].s2c), RecvSize) :
       LET chunk == SubSeq(conns[sock].s2c, 1, k)
           rest == SubSeq(conns[sock].s2c, k + 1, Len(conns[sock].s2c))
           a == AfterChunk(chunks \o chunk)
       IN IF a.next = "recv"
          THEN /\ chunks' = chunks \o chunk
               /\ conns' = [conns EXCEPT ![sock].s2c = rest]
               /\ UNCHANGED << sock, cpc, call, outcome >>
          ELSE IF a.next = "return"
          THEN /\ chunks' = << >>
               /\ conns' = [conns EXCEPT ![sock].s2c = rest]
               /\ outcome' = Result(a.val)
               /\ cpc' = "idle"
               /\ call' = None
               /\ UNCHANGED sock
          ELSE /\ chunks' = chunks \o chunk
               /\ DropSocket([conns EXCEPT ![sock].s2c = rest])
               /\ outcome' = Error(a.val.s)
               /\ cpc' = "idle"
               /\ call' = None
  /\ UNCHANGED << serverVars, backlog, calls, faults, sends, mpc, qgis_connection, gpc >>

\* ReceiveEof with `return {}` after the loop for the raise
ReceiveEof_Partial ==
  /\ cpc = "recv"
  /\ ~conns[sock].broken
  /\ conns[sock].s2c = << >>
  /\ conns[sock].srv = "closed"
  /\ outcome' = Result(EmptyObj)
  /\ cpc' = "idle"
  /\ call' = None
  /\ UNCHANGED << serverVars, netVars, sock, chunks, calls, faults, sends, mpc, qgis_connection, gpc >>

\* recv returns b'': break, then raise "Unexpected end of data stream"
ReceiveEof ==
  /\ cpc = "recv"
  /\ ~conns[sock].broken
  /\ conns[sock].s2c = << >>
  /\ conns[sock].srv = "closed"
  /\ FailCommand(conns, EndOfStream)
  /\ UNCHANGED << serverVars, backlog, calls, faults, sends, mpc, qgis_connection, gpc >>

\* recv raises
ReceiveError ==
  /\ cpc = "recv"
  /\ conns[sock].broken
  /\ FailCommand(conns, "socket error")
  /\ UNCHANGED << serverVars, backlog, calls, faults, sends, mpc, qgis_connection, gpc >>

\* a socket object nothing refers to is collected, which closes it; what it
\* had not read is discarded
CollectSocket ==
  /\ \E c \in ConnIds :
       /\ conns[c].cli = "leaked"
       /\ conns' = [conns EXCEPT ![c].cli = "closed", ![c].s2c = << >>]
  /\ UNCHANGED << serverVars, backlog, clientVars, faults, sends, mpc, qgis_connection, gpc >>

(***************************************************************************)
(* The environment: the transport fails.                                   *)
(***************************************************************************)
\* an established connection breaks: each end's next recv or send raises
NetFault ==
  /\ faults < MaxFaults
  /\ \E c \in ConnIds :
       /\ conns[c].cli \in {"open", "leaked"}
       /\ conns[c].srv \in {"queued", "open"}
       /\ ~conns[c].broken
       /\ conns' = [conns EXCEPT ![c].broken = TRUE]
  /\ faults' = faults + 1
  /\ UNCHANGED << serverVars, backlog, clientVars, sends, mpc, qgis_connection, gpc >>

(***************************************************************************)
(* Inputs.                                                                 *)
(***************************************************************************)
Projects ==
  { [layers |-> l, visible |-> v] : l \in SUBSET LayerIds, v \in SUBSET LayerIds }
  \cap { pr \in [layers : SUBSET LayerIds, visible : SUBSET LayerIds] :
           pr.visible \subseteq pr.layers }

MappingParams ==
  { EmptyObj,
    Obj("layer_id" :> Str("L1")),
    Obj("layer_id" :> Str("missing-id")),
    Obj("layer_id" :> Str("L1") @@ "visible" :> False),
    Obj("layer_id" :> Str("L2") @@ "visible" :> True),
    Obj("path" :> Str("/data/ok.shp") @@ "name" :> Str("x")),
    Obj("path" :> Str("/does/not/exist.shp") @@ "name" :> Str("x")
        @@ "provider" :> Str("ogr")),
    Obj("code" :> Str(CodeOk)),
    Obj("code" :> Str(CodeClear)),
    Obj("code" :> Str(CodeExit)),
    Obj("code" :> Str("1/0")),
    Obj("code" :> Str(NonAscii)),
    Obj("algorithm" :> Str(AlgOk) @@ "parameters" :> EmptyObj),
    Obj("algorithm" :> Str(AlgHost) @@ "parameters" :> EmptyObj),
    Obj("algorithm" :> Str("native:bad") @@ "parameters" :> EmptyObj),
    Obj("extra" :> True) }
ParamValues == MappingParams \cup { None, Arr(<< Str("L1") >>) }
TypeValues ==
  { Str(h) : h \in HandlerNames }
  \cup { Str("bogus"), Str(""), None, Lit("5"), True, EmptyObj, Arr(<< Str("get_layers") >>) }

\* the documents a peer can make execute_command see
Commands ==
  { Obj("type" :> t @@ "params" :> p) : t \in TypeValues, p \in ParamValues }
  \cup { Obj("type" :> t) : t \in TypeValues }
  \cup { Obj("params" :> p) : p \in ParamValues }
  \cup { EmptyObj, Lit("5"), Arr(<< >>) }

\* the commands send_command can make
CommandTypes == HandlerNames \cup { "bogus" }
Calls == { MakeCommand(t, p) : t \in CommandTypes, p \in MappingParams \cup { None } }

(***************************************************************************)
(* execute_command on its own: the server thread holds a decoded command.  *)
(***************************************************************************)
\* the server thread serves connection 1, its buffer empty
ServerServes(pr) ==
  /\ running = TRUE
  /\ srvSock = "listening"
  /\ buffer = << >>
  /\ client = 1
  /\ response = None
  /\ invoked = "none"
  /\ project = pr
  /\ conns = [c \in ConnIds |-> IF c = 1 THEN [NewConn EXCEPT !.srv = "open"] ELSE NoConn]
  /\ backlog = << >>
  /\ faults = 0
  /\ sends = 0
  /\ mpc = "idle"
  /\ qgis_connection = FALSE
  /\ gpc = "idle"

ManagerIdle ==
  /\ sock = 0
  /\ cpc = "idle"
  /\ call = None
  /\ chunks = << >>
  /\ outcome = NoOutcome
  /\ calls = 0

InitDispatch ==
  \E cmd \in Commands, pr \in Projects :
    /\ spc = "exec"
    /\ command = cmd
    /\ dispatched = 1
    /\ ServerServes(pr)
    /\ reads = 1
    /\ ManagerIdle

NextDispatch == Execute

SpecDispatch == InitDispatch /\ [][NextDispatch]_vars

(***************************************************************************)
(* One exchange: the manager has written a command on a fresh connection,  *)
(* which the server has accepted; the bytes reach the server, and the      *)
(* response the manager, in chunks of any sizes.                           *)
(***************************************************************************)
InitProjects ==
  { [layers |-> {}, visible |-> {}], [layers |-> {"L1"}, visible |-> {"L1"}] }

InitFrame ==
  \E cmd \in Calls, pr \in InitProjects :
    /\ spc = "client_loop"
    /\ command = None
    /\ dispatched = 0
    /\ reads = 0
    /\ running = TRUE
    /\ srvSock = "listening"
    /\ buffer = << >>
    /\ client = 1
    /\ response = None
    /\ invoked = "none"
    /\ project = pr
    /\ conns = [c \in ConnIds |->
                  IF c = 1 THEN [NewConn EXCEPT !.srv = "open", !.c2s = json_dumps(cmd)]
                  ELSE NoConn]
    /\ backlog = << >>
    /\ sock = 1
    /\ cpc = "recv"
    /\ call = cmd
    /\ chunks = << >>
    /\ outcome = NoOutcome
    /\ calls = 1
    /\ faults = 0
    /\ sends = 0
    /\ mpc = "idle"
    /\ qgis_connection = FALSE
    /\ gpc = "idle"

NextFrame ==
  \/ ClientLoop
  \/ RecvData
  \/ RecvEof
  \/ Execute
  \/ SendResponse
  \/ SendUnserializable
  \/ AcceptLoop
  \/ AcceptTimeout
  \/ ReceiveChunk
  \/ ReceiveEof
  \/ CollectSocket

SpecFrame == InitFrame /\ [][NextFrame]_vars

(***************************************************************************)
(* The manager against any peer: a process that accepts its connections,   *)
(* reads what it sends, writes what it likes (a response document or the   *)
(* first bytes of one) and closes when it likes.                           *)
(***************************************************************************)
RawNonAscii == << LBrace, KeyByte("result"), Utf8Hi(NonAscii), Utf8Lo(NonAscii), RBrace >>
ReplyDocs ==
  { json_dumps(Obj("status" :> Str("success") @@ "result" :> Str("r"))),
    json_dumps(Obj("status" :> Str("error") @@ "message" :> Str("boom"))),
    json_dumps(Obj("status" :> Str("error"))),
    json_dumps(Obj("status" :> Str("success"))),
    json_dumps(Obj("result" :> Str("r"))),
    json_dumps(EmptyObj),
    json_dumps(Arr(<< >>)),
    RawNonAscii }
ReplyWrites == UNION { { SubSeq(d, 1, j) : j \in 1..Len(d) } : d \in ReplyDocs }

PeerAccept ==
  /\ spc = "peer"
  /\ backlog # << >>
  /\ conns' = [conns EXCEPT ![Head(backlog)].srv = "open"]
  /\ backlog' = Tail(backlog)
  /\ UNCHANGED << serverVars, clientVars, faults, sends, mpc, qgis_connection, gpc >>

PeerRead ==
  /\ spc = "peer"
  /\ \E c \in ConnIds :
       /\ conns[c].srv = "open"
       /\ conns[c].c2s # << >>
       /\ conns' = [conns EXCEPT ![c].c2s = << >>]
  /\ UNCHANGED << serverVars, backlog, clientVars, faults, sends, mpc, qgis_connection, gpc >>

PeerWrite ==
  /\ spc = "peer"
  /\ sends < MaxReplies
  /\ \E c \in ConnIds, w \in ReplyWrites :
       /\ conns[c].srv = "open"
       /\ conns[c].cli = "open"
       /\ ~conns[c].broken
       /\ conns' = [conns EXCEPT ![c].s2c = @ \o w]
  /\ sends' = sends + 1
  /\ UNCHANGED << serverVars, backlog, clientVars, faults, mpc, qgis_connection, gpc >>

PeerClose ==
  /\ spc = "peer"
  /\ \E c \in ConnIds :
       /\ conns[c].srv = "open"
       /\ conns' = [conns EXCEPT ![c].srv = "closed"]
  /\ UNCHANGED << serverVars, backlog, clientVars, faults, sends, mpc, qgis_connection, gpc >>

ClientCalls == { MakeCommand("get_project_info", None) }

InitClient ==
  /\ running = FALSE
  /\ srvSock \in {"listening", "closed"}
  /\ spc = "peer"
  /\ buffer = << >>
  /\ client = 0
  /\ command = None
  /\ response = None
  /\ invoked = "none"
  /\ dispatched = 0
  /\ reads = 0
  /\ project = [layers |-> {}, visible |-> {}]
  /\ conns = [c \in ConnIds |-> NoConn]
  /\ backlog = << >>
  /\ faults = 0
  /\ sends = 0
  /\ mpc = "idle"
  /\ qgis_connection = FALSE
  /\ gpc = "idle"
  /\ ManagerIdle

NextClient ==
  \/ connect
  \/ disconnect
  \/ \E cmd \in ClientCalls : BeginCommand(cmd)
  \/ SendCommand
  \/ SendCommandError
  \/ ReceiveChunk
  \/ ReceiveEof
  \/ ReceiveError
  \/ CollectSocket
  \/ PeerAccept
  \/ PeerRead
  \/ PeerWrite
  \/ PeerClose
  \/ NetFault

SpecClient == InitClient /\ [][NextClient]_vars

(***************************************************************************)
(* disconnect() on its own: the manager is idle, with no socket or with a  *)
(* socket on connection 1, the transport in any state a peer can have left *)
(* it in.                                                                  *)
(***************************************************************************)
HeldConns ==
  { cn \in { [cli |-> "open", srv |-> sv, c2s |-> out, s2c |-> in, broken |-> br] :
               sv \in {"queued", "open", "closed"},
               out \in { << >>, json_dumps(MakeCommand("get_project_info", None)) },
               in \in ReplyWrites \cup { << >> },
               br \in BOOLEAN } :
      cn.srv = "queued" => cn.s2c = << >> }

InitDisconnect ==
  /\ running = FALSE
  /\ srvSock = "listening"
  /\ spc = "peer"
  /\ buffer = << >>
  /\ client = 0
  /\ command = None
  /\ response = None
  /\ invoked = "none"
  /\ dispatched = 0
  /\ reads = 0
  /\ project = [layers |-> {}, visible |-> {}]
  /\ faults = 0
  /\ sends = 0
  /\ mpc = "idle"
  /\ qgis_connection = FALSE
  /\ gpc = "idle"
  /\ cpc = "idle"
  /\ call = None
  /\ chunks = << >>
  /\ outcome = NoOutcome
  /\ calls = 0
  /\ \/ /\ sock = 0
        /\ conns = [c \in ConnIds |-> NoConn]
        /\ backlog = << >>
     \/ \E cn \in HeldConns :
          /\ sock = 1
          /\ conns = [c \in ConnIds |-> IF c = 1 THEN cn ELSE NoConn]
          /\ backlog = IF cn.srv = "queued" THEN << 1 >> ELSE << >>

NextDisconnect ==
  \/ disconnect
  \/ CollectSocket

SpecDisconnect == InitDisconnect /\ [][NextDisconnect]_vars

(***************************************************************************)
(* The whole: the server thread started by start(), one manager calling    *)
(* connect() and send_command(), and a transport that can fail.            *)
(***************************************************************************)
SpecCalls ==
  { MakeCommand("get_layers", None),
    MakeCommand("run_processing_algorithm",
                Obj("algorithm" :> Str(AlgHost) @@ "parameters" :> EmptyObj)) }

\* after __init__ and start(): running set, the socket bound and listening,
\* the thread at the top of its accept loop
Init ==
  /\ running = TRUE
  /\ srvSock = "listening"
  /\ spc = "accept_loop"
  /\ buffer = << >>
  /\ client = 0
  /\ command = None
  /\ response = None
  /\ invoked = "none"
  /\ dispatched = 0
  /\ reads = 0
  /\ project = [layers |-> {"L1"}, visible |-> {"L1"}]
  /\ conns = [c \in ConnIds |-> NoConn]
  /\ backlog = << >>
  /\ faults = 0
  /\ sends = 0
  /\ mpc = "idle"
  /\ qgis_connection = FALSE
  /\ gpc = "idle"
  /\ ManagerIdle

Next ==
  \/ AcceptLoop
  \/ AcceptClient
  \/ AcceptTimeout
  \/ ClientLoop
  \/ RecvData
  \/ RecvEof
  \/ RecvError
  \/ Execute
  \/ SendResponse
  \/ SendUnserializable
  \/ SendError
  \/ connect
  \/ disconnect
  \/ \E cmd \in SpecCalls : BeginCommand(cmd)
  \/ SendCommand
  \/ SendCommandError
  \/ ReceiveChunk
  \/ ReceiveEof
  \/ ReceiveError
  \/ CollectSocket
  \/ NetFault

Spec == Init /\ [][Next]_vars

(***************************************************************************)
(* The server's life: start(), the thread from its first statement, one    *)
(* manager, and stop() called at any moment.                                *)
(***************************************************************************)
StopCalls == { MakeCommand("get_layers", None) }

InitStop ==
  /\ running = TRUE
  /\ srvSock = "unbound"
  /\ spc = "start"
  /\ buffer = << >>
  /\ client = 0
  /\ command = None
  /\ response = None
  /\ invoked = "none"
  /\ dispatched = 0
  /\ reads = 0
  /\ project = [layers |-> {"L1"}, visible |-> {"L1"}]
  /\ conns = [c \in ConnIds |-> NoConn]
  /\ backlog = << >>
  /\ faults = 0
  /\ sends = 0
  /\ mpc = "idle"
  /\ qgis_connection = FALSE
  /\ gpc = "idle"
  /\ ManagerIdle

ServerThread ==
  \/ Bind
  \/ AcceptLoop
  \/ AcceptClient
  \/ AcceptTimeout
  \/ ClientLoop
  \/ RecvData
  \/ RecvEof
  \/ Execute
  \/ SendResponse

NextStop ==
  \/ ServerThread
  \/ StopFlag
  \/ JoinEnded
  \/ JoinTimeout
  \/ StopClose
  \/ connect
  \/ disconnect
  \/ \E cmd \in StopCalls : BeginCommand(cmd)
  \/ SendCommand
  \/ SendCommandError
  \/ ReceiveChunk
  \/ ReceiveEof
  \/ ReceiveError
  \/ CollectSocket

\* the thread is scheduled: it does not stay for ever before a statement of
\* its accept loop, or of the loop test of _handle_client, that it can execute
ThreadRuns ==
  /\ WF_vars(Bind)
  /\ WF_vars(AcceptLoop)
  /\ WF_vars(AcceptClient)
  /\ WF_vars(AcceptTimeout)
  /\ WF_vars(ClientLoop)

SpecStop == InitStop /\ [][NextStop]_vars /\ ThreadRuns

(***************************************************************************)
(* get_qgis_connection: the MCP process keeps one manager in the global    *)
(* _qgis_connection and probes it before each use. Its outcome is "got"    *)
(* when it returns the manager, "error" when it raises ConnectionError.    *)
(***************************************************************************)
\* GetProbed without the probe's outcome: the cached manager is returned
\* whether the probe succeeded or not
GetProbed_Reuse ==
  /\ gpc = "probe"
  /\ cpc = "idle"
  /\ outcome.kind \in {"result", "error"}
  /\ gpc' = "idle"
  /\ outcome' = [kind |-> "got", val |-> None]
  /\ UNCHANGED << serverVars, netVars, sock, qgis_connection, cpc, call, chunks, calls,
                  faults, sends, mpc >>

\* `if _qgis_connection is not None:` of get_qgis_connection
GetConnection ==
  /\ gpc = "idle"
  /\ cpc = "idle"
  /\ calls < MaxCalls
  /\ gpc' = IF qgis_connection THEN "probe" ELSE "create"
  /\ outcome' = NoOutcome
  /\ UNCHANGED << serverVars, netVars, sock, cpc, call, chunks, calls, faults, sends, mpc,
                  qgis_connection >>

\* the probe has returned: return _qgis_connection; or it has raised:
\* _qgis_connection.disconnect(), _qgis_connection = None
GetProbed ==
  /\ gpc = "probe"
  /\ cpc = "idle"
  /\ outcome.kind \in {"result", "error"}
  /\ IF outcome.kind = "result"
     THEN /\ gpc' = "idle"
          /\ outcome' = [kind |-> "got", val |-> None]
          /\ UNCHANGED << sock, conns, qgis_connection >>
     ELSE /\ gpc' = "create"
          /\ qgis_connection' = FALSE
          /\ UNCHANGED outcome
          /\ IF sock # 0
             THEN /\ conns' = [conns EXCEPT ![sock].cli = "closed", ![sock].s2c = << >>]
                  /\ sock' = 0
             ELSE UNCHANGED << sock, conns >>
  /\ UNCHANGED << serverVars, backlog, cpc, call, chunks, calls, faults, sends, mpc >>

\* `if _qgis_connection is None:` the global is set to a new manager, whose
\* connect() succeeds, or fails and ConnectionError is raised
CreateManager ==
  /\ gpc = "create"
  /\ gpc' = "idle"
  /\ qgis_connection' = TRUE
  /\ \/ /\ OpenConnection
        /\ outcome' = [kind |-> "got", val |-> None]
     \/ /\ FailConnection
        /\ outcome' = Error("Could not connect to QGIS. Make sure the QGIS MCP plugin is running.")
  /\ UNCHANGED << serverVars, cpc, call, chunks, calls, faults, sends, mpc >>

\* what the tools of the MCP process send on the manager they were returned:
\* a command that succeeds, one that fails, one whose result has no JSON form
ManagerCalls ==
  { MakeCommand("get_layers", None),
    MakeCommand("zoom_to_layer", Obj("layer_id" :> Str("L2"))),
    MakeCommand("run_processing_algorithm",
                Obj("algorithm" :> Str(AlgHost) @@ "parameters" :> EmptyObj)) }

\* the server runs; the MCP process has no manager yet, or has one whose
\* connection the server is serving
InitManager ==
  \E cached \in BOOLEAN :
    /\ running = TRUE
    /\ srvSock = "listening"
    /\ spc = IF cached THEN "recv" ELSE "accept_loop"
    /\ buffer = << >>
    /\ client = IF cached THEN 1 ELSE 0
    /\ command = None
    /\ response = None
    /\ invoked = "none"
    /\ dispatched = 0
    /\ reads = 0
    /\ project = [layers |-> {"L1"}, visible |-> {"L1"}]
    /\ conns = [c \in ConnIds |->
                  IF cached /\ c = 1 THEN [NewConn EXCEPT !.srv = "open"] ELSE NoConn]
    /\ backlog = << >>
    /\ faults = 0
    /\ sends = 0
    /\ mpc = "idle"
    /\ qgis_connection = cached
    /\ gpc = "idle"
    /\ sock = IF cached THEN 1 ELSE 0
    /\ cpc = "idle"
    /\ call = None
    /\ chunks = << >>
    /\ outcome = NoOutcome
    /\ calls = 0

NextManager ==
  \/ AcceptLoop
  \/ AcceptClient
  \/ AcceptTimeout
  \/ ClientLoop
  \/ RecvData
  \/ RecvEof
  \/ RecvError
  \/ Execute
  \/ SendResponse
  \/ SendUnserializable
  \/ SendError
  \/ GetConnection
  \* the probe: _qgis_connection.send_command("get_project_info")
  \/ gpc = "probe" /\ outcome = NoOutcome /\ BeginCommand(MakeCommand("get_project_info", None))
  \/ GetProbed
  \/ CreateManager
  \* a tool: send_command on the manager get_qgis_connection returned
  \/ gpc = "idle" /\ outcome.kind = "got" /\ \E cmd \in ManagerCalls : BeginCommand(cmd)
  \/ SendCommand
  \/ SendCommandError
  \/ ReceiveChunk
  \/ ReceiveEof
  \/ ReceiveError
  \/ CollectSocket
  \/ NetFault

SpecManager == InitManager /\ [][NextManager]_vars

(***************************************************************************)
(* The server against any client: a process that has connected and written *)
(* what it liked (a command, a command and the first bytes of the next,    *)
(* bytes that are no JSON, bytes that are no UTF-8) and closes when it      *)
(* likes, and a second client that may have connected meanwhile, written   *)
(* one command, and waits to be accepted.                                  *)
(***************************************************************************)
StreamCommands ==
  { MakeCommand("get_layers", None),
    MakeCommand("remove_layer", Obj("layer_id" :> Str("L1"))) }
StreamWrites ==
  UNION { { json_dumps(c1) \o SubSeq(json_dumps(c2), 1, j) : j \in 0..Len(json_dumps(c2)) } :
            c1 \in StreamCommands, c2 \in StreamCommands }
  \cup { json_dumps(c1) \o << RBrace >> : c1 \in StreamCommands }
  \cup { << RBrace >>, << LBrace, LBrace >>, << LBrace, StrByte("type") >>, << BadByte >> }

\* the client closes its socket
ClientClose ==
  /\ spc # "peer"
  /\ sock = 0
  /\ \E c \in ConnIds :
       /\ conns[c].cli = "open"
       /\ conns' = [conns EXCEPT ![c].cli = "closed", ![c].s2c = << >>]
  /\ UNCHANGED << serverVars, backlog, clientVars, faults, sends, mpc, qgis_connection, gpc >>

InitStream ==
  \E w \in StreamWrites, later \in {NoConn} \cup { [NewConn EXCEPT !.c2s = json_dumps(c)] : c \in StreamCommands } :
    /\ spc = "client_loop"
    /\ command = None
    /\ dispatched = 0
    /\ reads = 0
    /\ running = TRUE
    /\ srvSock = "listening"
    /\ buffer = << >>
    /\ client = 1
    /\ response = None
    /\ invoked = "none"
    /\ project = [layers |-> {"L1"}, visible |-> {"L1"}]
    /\ conns = [c \in ConnIds |->
                  IF c = 1 THEN [NewConn EXCEPT !.srv = "open", !.c2s = w]
                  ELSE IF c = 2 THEN later ELSE NoConn]
    /\ backlog = IF later = NoConn THEN << >> ELSE << 2 >>
    /\ faults = 0
    /\ sends = 0
    /\ mpc = "idle"
    /\ qgis_connection = FALSE
    /\ gpc = "idle"
    /\ ManagerIdle

NextStream ==
  \/ AcceptClient
  \/ ClientLoop
  \/ RecvData
  \/ RecvEof
  \/ Execute
  \/ SendResponse
  \/ SendError
  \/ AcceptLoop
  \/ AcceptTimeout
  \/ ClientClose

SpecStream == InitStream /\ [][NextStream]_vars

(***************************************************************************)
(* C1 as stated. For every command whose type is no registered handler     *)
(* name, a command without a type included, execute_command returns        *)
(* {status: "error", message: "Unknown command type: <type>"}, runs no     *)
(* handler and leaves the project as it was.                               *)
(***************************************************************************)
RegisteredTypes == { Str(h) : h \in HandlerNames }
TypeOf(cmd) == IF IsObj(cmd) /\ "type" \in DOMAIN cmd.m THEN cmd.m["type"] ELSE None
UnknownTypeResponse(cmd) ==
  Obj("status" :> Str("error") @@
      "message" :> Str("Unknown command type: " \o PyStr(TypeOf(cmd))))
AnswersUnknownType ==
  /\ spc' = "send"
  /\ response' = UnknownTypeResponse(command)
  /\ invoked' = "none"
  /\ project' = project

C1_AsStated ==
  [][ ( /\ spc = "exec"
        /\ IsObj(command)
        /\ TypeOf(command) \notin RegisteredTypes )
      => AnswersUnknownType ]_vars

\* what holds of C1: the same for a type that is absent or is a string, a
\* number, a boolean or null, the types a dict lookup accepts
C1_UnknownScalarType ==
  [][ ( /\ spc = "exec"
        /\ IsObj(command)
        /\ TypeOf(command).k \in {"str", "lit"}
        /\ TypeOf(command) \notin RegisteredTypes )
      => AnswersUnknownType ]_vars

(***************************************************************************)
(* C2 as stated. For a command whose type is a registered handler name,    *)
(* execute_command returns {status: "success", result} exactly when the    *)
(* handler returned, and {status: "error", message} when the handler or    *)
(* its invocation failed; the connection stays open and the thread goes    *)
(* on to write the response on it, then back to its loop.                  *)
(***************************************************************************)
HandlerOutcome(cmd, pr) ==
  Invoke(TypeOf(cmd).s, DictGet(cmd, "params", EmptyObj), pr)
StatusOf(resp) == IF IsObj(resp) /\ "status" \in DOMAIN resp.m THEN resp.m["status"] ELSE None

C2_ExecuteStep ==
  ( /\ spc = "exec"
    /\ spc' # "exec"
    /\ TypeOf(command) \in RegisteredTypes )
  => /\ spc' = "send"
     /\ client' = client
     /\ conns'[client].srv = "open"
     /\ srvSock' = "listening"
     /\ HandlerOutcome(command, project).kind = "return"
          => response' = Obj("status" :> Str("success") @@
                             "result" :> HandlerOutcome(command, project).val)
     /\ HandlerOutcome(command, project).kind # "return"
          => response' = Obj("status" :> Str("error") @@
                             "message" :> Str(HandlerOutcome(command, project).val))
C2_SendStep ==
  ( /\ spc = "send"
    /\ spc' # "send"
    /\ StatusOf(response) = Str("error") )
  => /\ spc' = "client_loop"
     /\ client' = client
     /\ conns'[client].srv = "open"
     /\ conns'[client].s2c = conns[client].s2c \o json_dumps(response)

C2_AsStated == [][C2_ExecuteStep /\ C2_SendStep]_vars

(***************************************************************************)
(* C3. A command send_command encoded reaches a connection whose buffer is *)
(* empty in chunks of any sizes: nothing is dispatched while bytes of it   *)
(* are still to come, and once the last chunk was received exactly one     *)
(* command was dispatched, equal to the one encoded.                       *)
(***************************************************************************)
C3_ChunkedRoundTrip ==
  /\ dispatched = (IF conns[1].c2s = << >> THEN 1 ELSE 0)
  /\ conns[1].c2s # << >> => spc \in {"client_loop", "recv"}
  /\ spc = "exec" => command = call

\* C3's case: a command that arrived in three chunks or more was dispatched,
\* its non-ASCII parameter written as an escape on the wire
C3_Witness ==
  /\ spc = "exec"
  /\ reads >= 3
  /\ command = MakeCommand("execute_code", Obj("code" :> Str(NonAscii)))

(***************************************************************************)
(* C5. When the bytes send_command has received decode to a complete       *)
(* response mapping: if its status is "error" the call fails with the      *)
(* mapping's message, or "Unknown error from QGIS" without one; otherwise, *)
(* with or without a status, the call returns its result, or an empty      *)
(* mapping without one.                                                    *)
(***************************************************************************)
\* the bytes send_command holds after the recv of this step
Received ==
  chunks \o SubSeq(conns[sock].s2c, 1, Len(conns[sock].s2c) - Len(conns'[sock].s2c))
ReceivesBytes ==
  /\ cpc = "recv"
  /\ ~conns[sock].broken
  /\ Len(conns'[sock].s2c) < Len(conns[sock].s2c)

C5_ResponseHandling ==
  [][ ( /\ ReceivesBytes
        /\ LoadBytes(Received).kind = "value"
        /\ IsObj(LoadBytes(Received).val) )
      => LET doc == LoadBytes(Received).val
         IN /\ cpc' = "idle"
            /\ IF "status" \in DOMAIN doc.m /\ doc.m["status"] = Str("error")
               THEN outcome' = [kind |-> "error",
                                val |-> IF "message" \in DOMAIN doc.m
                                        THEN Str(PyStr(doc.m["message"]))
                                        ELSE Str("Unknown error from QGIS")]
               ELSE outcome' = [kind |-> "result",
                                val |-> IF "result" \in DOMAIN doc.m
                                        THEN doc.m["result"] ELSE Obj(EmptyMap)] ]_vars

\* C5's case: a response without a result was received whole and the call
\* returned an empty mapping
C5_Witness ==
  /\ cpc = "idle"
  /\ outcome = Result(EmptyObj)
  /\ sock # 0
  /\ conns[sock].s2c = << >>

(***************************************************************************)
(* C6. send_command only waits for more bytes while those it holds are no  *)
(* complete document; when the peer then closes the stream the call fails  *)
(* with "Unexpected end of data stream from QGIS", and a call returns a    *)
(* result only on a recv that completes a document.                        *)
(***************************************************************************)
C6_EndOfStream ==
  [][ ( cpc = "recv" /\ cpc' = "idle" )
      => /\ LoadBytes(chunks).kind # "value"
         /\ ( /\ ~conns[sock].broken
              /\ conns[sock].s2c = << >>
              /\ conns[sock].srv = "closed" )
            => outcome' = Error("Unexpected end of data stream from QGIS")
         /\ outcome'.kind = "result"
            => ReceivesBytes /\ LoadBytes(Received).kind = "value" ]_vars

\* C6's case: the peer closed after the first bytes of a document and the
\* call failed
C6_Witness ==
  /\ cpc = "idle"
  /\ outcome = Error(EndOfStream)
  /\ chunks # << >>
  /\ sock = 0

(***************************************************************************)
(* C7. When send_command, its connection established, ends in an error     *)
(* (write error, read error, end of stream, status "error"), self.sock is  *)
(* None when the error reaches the caller; when it returns a result,       *)
(* self.sock is the socket it used.                                        *)
(***************************************************************************)
C7_SocketClearedOnFailure ==
  [][ ( cpc \in {"send", "recv"} /\ cpc' = "idle" )
      => /\ outcome'.kind \in {"error", "result"}
         /\ outcome'.kind = "error" => sock' = 0
         /\ outcome'.kind = "result" => sock' = sock /\ sock' # 0 ]_vars

\* C7's case: a status "error" response ended the call and the socket
\* reference is cleared
C7_Witness ==
  /\ cpc = "idle"
  /\ outcome = Error("boom")
  /\ sock = 0

(***************************************************************************)
(* C9. connect() called while the manager holds a socket reports success,  *)
(* opens no connection and leaves self.sock as it was.                     *)
(***************************************************************************)
C9_ConnectIdempotent ==
  [][ ( sock # 0 /\ calls' = calls + 1 /\ outcome'.kind = "connect" )
      => /\ outcome' = Connected(TRUE)
         /\ sock' = sock
         /\ conns' = conns
         /\ backlog' = backlog ]_vars

\* C9's case: connect() was called again, the peer having accepted the first
\* connection and written on it; the manager still holds that connection,
\* the only one opened
C9_Witness ==
  /\ calls = 2
  /\ sends = 1
  /\ outcome = Connected(TRUE)
  /\ sock = 1
  /\ conns[1].cli = "open"
  /\ conns[2] = NoConn

(***************************************************************************)
(* C10. With the peer unreachable, connect() reports failure and           *)
(* send_command fails with "Not connected to QGIS"; either leaves          *)
(* self.sock None and writes nothing, and a connect() that succeeds from   *)
(* the disconnected state holds a connection opened by that call.          *)
(***************************************************************************)
C10_UnreachablePeer ==
  [][ ( sock = 0 /\ calls' = calls + 1 /\ outcome'.kind # "disconnect" )
      => /\ ~Listening
            => /\ sock' = 0
               /\ conns' = conns
               /\ backlog' = backlog
               /\ cpc' = "idle"
               /\ outcome' \in { Connected(FALSE), Error("Not connected to QGIS") }
         /\ sock' # 0
            => /\ conns[sock'] = NoConn
               /\ conns'[sock'] = NewConn ]_vars

\* C10's case: send_command failed for want of a connection, nothing opened
C10_Witness ==
  /\ outcome = Error(NotConnected)
  /\ sock = 0
  /\ ~Listening
  /\ \A c \in ConnIds : conns[c] = NoConn

(***************************************************************************)
(* C4 as stated. In every reachable state the server's buffer is empty or  *)
(* is a proper prefix of one JSON document: bytes that decode, and that    *)
(* some continuation completes into a single document.                     *)
(***************************************************************************)
ProperPrefix(b) ==
  /\ decode_utf8(b).ok
  /\ ParseValue(decode_utf8(b).text, 1).st = "incomplete"

C4_AsStated == buffer = << >> \/ ProperPrefix(buffer)

(***************************************************************************)
(* C8 as stated, in the form a finite run refutes. Once a call has failed  *)
(* on a socket failure, the next send_command returns the server's result: *)
(* it is never left waiting for a response on an intact connection while   *)
(* the server, having read all of the command, waits on the same           *)
(* connection for more bytes of it.                                        *)
(***************************************************************************)
BothWait ==
  /\ cpc = "recv"
  /\ spc = "recv"
  /\ client = sock
  /\ ~conns[sock].broken
  /\ conns[sock].c2s = << >>
  /\ conns[sock].s2c = << >>

C8_AsStated == ( faults > 0 /\ calls > 1 ) => ~BothWait

(***************************************************************************)
(* C11. disconnect() returns without raising and leaves self.sock None,    *)
(* whether or not closing the socket fails; called with self.sock already  *)
(* None, as a second call in a row is, it changes nothing.                 *)
(***************************************************************************)
C11_DisconnectSafe ==
  [][ calls' = calls + 1
      => /\ outcome' = [kind |-> "disconnect", val |-> None]
         /\ sock' = 0
         /\ cpc' = "idle"
         /\ backlog' = backlog
         /\ sock = 0 => conns' = conns
         /\ sock # 0 => /\ conns'[sock].cli \in {"closed", "leaked"}
                        /\ \A c \in ConnIds \ {sock} : conns'[c] = conns[c] ]_vars

\* C11's case: the close of the first disconnect() failed, and disconnect()
\* was called again
C11_Witness ==
  /\ calls = 2
  /\ sock = 0
  /\ outcome = Disconnected
  /\ conns[1].cli = "leaked"

(***************************************************************************)
(* C12. The server serves one accepted connection at a time: bytes are     *)
(* read, and commands dispatched, only from the connection being served,   *)
(* the only one whose accepted socket is open; a connection is accepted    *)
(* only once the handling loop of the one before has ended and its socket  *)
(* is closed.                                                              *)
(***************************************************************************)
Served(c) ==
  /\ client = c
  /\ conns[c].srv = "open"
  /\ \A d \in ConnIds \ {c} : conns[d].srv # "open"

C12_OneClientAtATime ==
  [][ /\ \A c \in ConnIds :
           Len(conns'[c].c2s) < Len(conns[c].c2s) => Served(c) /\ spc = "recv"
      /\ dispatched' # dispatched => client # 0 /\ Served(client)
      /\ \A c \in ConnIds :
           ( conns[c].srv # "open" /\ conns'[c].srv = "open" )
           => /\ client = 0
              /\ client' = c
              /\ \A d \in ConnIds : conns[d].srv # "open" ]_vars

\* C12's case: a second connection was opened and a command written on it
\* while the first is still being served; it waits in the backlog, unread
C12_Witness ==
  /\ client = 1
  /\ conns[1].srv = "open"
  /\ conns[2].srv = "queued"
  /\ conns[2].c2s = json_dumps(call)

(***************************************************************************)
(* C13 as stated. For every command the server decodes it writes one       *)
(* response on the connection the command came on (the transport intact),  *)
(* and goes round its loop, before it reads again; bytes are read only     *)
(* between commands, and a handler is invoked only for the one decoded     *)
(* command the thread holds.                                               *)
(***************************************************************************)
TransportIntact(c) == ~conns[c].broken /\ conns[c].cli \in {"open", "leaked"}

C13_AsStated ==
  [][ /\ ( spc = "exec" /\ spc' # "exec" ) => spc' = "send" /\ client' = client
      /\ ( spc = "send" /\ spc' # "send" /\ TransportIntact(client) )
         => /\ spc' = "client_loop"
            /\ client' = client
            /\ Len(conns'[client].s2c) > Len(conns[client].s2c)
      /\ \A c \in ConnIds : Len(conns'[c].c2s) < Len(conns[c].c2s) => spc = "recv"
      /\ invoked' # invoked => spc = "exec" ]_vars

(***************************************************************************)
(* C14. Once running is False and no client is being served, the thread    *)
(* dispatches nothing more and terminates; whenever the thread has left    *)
(* _run_server, after a shutdown or after a failed bind or listen, the     *)
(* listening socket is closed.                                             *)
(***************************************************************************)
C14_Shutdown ==
  /\ ( ~running /\ client = 0 ) ~> ( spc = "done" )
  /\ []( spc = "done" => srvSock = "closed" )
  /\ [][ ( ~running /\ client = 0 ) => dispatched' = dispatched ]_vars

\* C14's case: a command was served, the client left, stop() set the flag,
\* and the thread ended, the listening socket closed, before stop() went on
C14_Witness ==
  /\ spc = "done"
  /\ srvSock = "closed"
  /\ mpc = "join"
  /\ dispatched = 1
  /\ \A c \in ConnIds : conns[c].srv # "open"

(***************************************************************************)
(* C15 as stated. When stop() has returned the listening socket is closed, *)
(* no accepted client socket is open and the thread has terminated.        *)
(***************************************************************************)
C15_AsStated ==
  mpc = "returned"
  => /\ srvSock = "closed"
     /\ \A c \in ConnIds : conns[c].srv # "open"
     /\ spc \in {"done", "dead"}

(***************************************************************************)
(* C16. A layer handler that fails leaves the project's layers as they     *)
(* were: zoom_to_layer, set_visibility and remove_layer with an id that is *)
(* not in the project answer "Layer not found: <id>", add_vector_layer and *)
(* add_raster_layer with a source the host rejects answer "Layer failed to *)
(* load: <path>" and register nothing; remove_layer with an id that is in  *)
(* the project removes that layer and no other.                            *)
(***************************************************************************)
LayerHandlers ==
  { "add_vector_layer", "add_raster_layer", "zoom_to_layer", "set_visibility", "remove_layer" }
IsLayerCommand(cmd) ==
  /\ IsObj(cmd)
  /\ {"type", "params"} \subseteq DOMAIN cmd.m
  /\ cmd.m["type"].k = "str"
  /\ cmd.m["type"].s \in LayerHandlers
  /\ IsObj(cmd.m["params"])
Answer(status, key, text) == Obj("status" :> Str(status) @@ key :> Str(text))

C16_LayerFrame ==
  [][ ( spc = "exec" /\ spc' # "exec" /\ IsLayerCommand(command) )
      => LET t == command.m["type"].s
             p == command.m["params"].m
             byId == \/ t \in {"zoom_to_layer", "remove_layer"} /\ DOMAIN p = {"layer_id"}
                     \/ t = "set_visibility" /\ DOMAIN p = {"layer_id", "visible"}
             byPath == /\ t \in {"add_vector_layer", "add_raster_layer"}
                       /\ {"path", "name"} \subseteq DOMAIN p
                       /\ DOMAIN p \subseteq {"path", "name", "provider"}
         IN /\ StatusOf(response') = Str("error") => project'.layers = project.layers
            /\ ( byId /\ p["layer_id"].k = "str" /\ p["layer_id"].s \notin project.layers )
               => /\ response' = Answer("error", "message",
                                        "Layer not found: " \o p["layer_id"].s)
                  /\ project' = project
            /\ ( byPath /\ p["path"].k = "str" /\ p["path"].s \notin GoodPaths )
               => /\ response' = Answer("error", "message",
                                        "Layer failed to load: " \o p["path"].s)
                  /\ project' = project
            /\ ( t = "remove_layer" /\ byId /\ p["layer_id"].k = "str"
                 /\ p["layer_id"].s \in project.layers )
               => /\ StatusOf(response') = Str("success")
                  /\ project'.layers = project.layers \ { p["layer_id"].s } ]_vars

\* C16's case: a source the host rejects was answered, the project holding
\* the layer it held and a free place for one more
C16_Witness ==
  /\ spc = "send"
  /\ response = Answer("error", "message", "Layer failed to load: /does/not/exist.shp")
  /\ project.layers = {"L1"}

(***************************************************************************)
(* C17 as stated. The buffer belongs to one connection: at the moment the  *)
(* server accepts a client the buffer is empty, whatever the client before *)
(* sent before it left, and it is empty again once the handling loop of a  *)
(* connection has ended.                                                   *)
(***************************************************************************)
C17_AsStated ==
  [][ /\ ( client = 0 /\ client' # 0 ) => buffer' = << >>
      /\ ( client # 0 /\ client' = 0 ) => buffer' = << >> ]_vars

(***************************************************************************)
(* C18 as stated. When, after a recv, the buffer holds one complete JSON   *)
(* document followed by bytes of a next command, the server dispatches the *)
(* document and empties the buffer, the trailing bytes dropped.            *)
(***************************************************************************)
\* the server's buffer after the recv of this step, as text
Appended ==
  decode_utf8(buffer \o SubSeq(conns[client].c2s, 1,
                               Len(conns[client].c2s) - Len(conns'[client].c2s)))
ServerReceives ==
  /\ spc = "recv"
  /\ client # 0
  /\ Len(conns'[client].c2s) < Len(conns[client].c2s)

C18_AsStated ==
  [][ ( /\ ServerReceives
        /\ Appended.ok
        /\ ParseValue(Appended.text, 1).st = "ok"
        /\ ParseValue(Appended.text, 1).next <= Len(Appended.text) )
      => /\ spc' = "exec"
         /\ command' = ParseValue(Appended.text, 1).val
         /\ buffer' = << >> ]_vars

(***************************************************************************)
(* C19 as stated, for the server. When, after a recv, the buffer holds     *)
(* bytes that nothing can complete into a JSON document, the server ends   *)
(* the exchange: it does not go on waiting for more bytes.                 *)
(***************************************************************************)
C19_AsStated ==
  [][ ( /\ ServerReceives
        /\ Appended.ok
        /\ ParseValue(Appended.text, 1).st = "bad" )
      => /\ spc' \notin {"client_loop", "recv"}
         /\ conns'[client].srv = "closed" ]_vars

(***************************************************************************)
(* C20 as stated. Whenever send_command ends in a failure the client's end *)
(* of the connection is closed by that step, so the server's next recv on  *)
(* it sees the close, and at no time does the client process have more     *)
(* than one socket to the server that is not closed.                       *)
(***************************************************************************)
C20_AsStated ==
  [][ /\ ( cpc \in {"send", "recv"} /\ cpc' = "idle" /\ outcome'.kind = "error" )
          => conns'[sock].cli = "closed"
      /\ Cardinality({ c \in ConnIds : conns'[c].cli \in {"open", "leaked"} }) <= 1 ]_vars

(***************************************************************************)
(* C21. Once the running flag is false the per-connection loop starts no   *)
(* new read: from the top of its loop it leaves and closes the client      *)
(* socket, and it does so eventually. A read it is blocked in ends only    *)
(* when the peer has sent, has closed, or the connection has failed: while *)
(* none of these happens the loop stays in the read, flag or no flag.      *)
(***************************************************************************)
C21_LoopGatedByFlag ==
  /\ [][ ( ~running /\ spc # "recv" ) => spc' # "recv" ]_vars
  /\ [][ ( ~running /\ spc = "client_loop" /\ spc' # spc )
          => /\ spc' = "accept_loop"
             /\ client' = 0
             /\ conns'[client].srv = "closed" ]_vars
  /\ [][ ( spc = "recv" /\ spc' # "recv" )
          => \/ conns[client].c2s # << >>
             \/ conns[client].cli = "closed"
             \/ conns[client].broken ]_vars
  /\ ( ~running /\ spc = "client_loop" ) ~> ( client = 0 )

\* C21's case: stop() gave up waiting for a thread blocked in a read; the
\* peer then sent, the read completed, and the loop is at its test with the
\* flag false
C21_Witness ==
  /\ mpc = "returned"
  /\ ~running
  /\ spc = "client_loop"
  /\ client # 0
  /\ reads > 0

(***************************************************************************)
(* C25 as stated. Once stop() has returned the server decodes and          *)
(* dispatches no further command, runs no handler and leaves the host's    *)
(* project as it is.                                                       *)
(***************************************************************************)
C25_AsStated ==
  [][ mpc = "returned"
      => /\ dispatched' = dispatched
         /\ project' = project
         /\ ( spc' = "exec" => spc = "exec" ) ]_vars

(***************************************************************************)
(* C27 as stated. Whenever the server's thread has terminated, the running *)
(* flag is false.                                                          *)
(***************************************************************************)
C27_AsStated == ThreadEnded => ~running

(***************************************************************************)
(* C22 as stated. An error in the serving of one client ends that          *)
(* connection only: its socket is closed and the thread is back in its     *)
(* accept loop, the listening socket as it was; and when the client        *)
(* accepted after it has sent one complete command, the read that takes    *)
(* the last of its bytes decodes the command and dispatches it.            *)
(***************************************************************************)
\* the server ended connection c of itself: the client's end is still open
EndedByServer(c) == conns[c].srv = "closed" /\ conns[c].cli = "open"

C22_AsStated ==
  [][ /\ ( spc \in {"recv", "send"} /\ client # 0 /\ client' = 0 )
          => /\ conns'[client].srv = "closed"
             /\ spc' = "accept_loop"
             /\ srvSock' = srvSock
             /\ running' = running
      /\ ( /\ ServerReceives
            /\ client = 2
            /\ EndedByServer(1)
            /\ conns'[2].c2s = << >> )
          => /\ spc' = "exec"
             /\ command' \in StreamCommands ]_vars

(***************************************************************************)
(* C26 as stated, in the form a finite run refutes. A send_command call    *)
(* whose command the running server receives whole is decoded and goes to  *)
(* its handler, whatever happened on earlier connections: when the first   *)
(* read on a connection takes all the bytes of the command the manager is  *)
(* waiting on, that read yields the command.                               *)
(***************************************************************************)
C26_AsStated ==
  [][ ( /\ ServerReceives
        /\ running
        /\ client = sock
        /\ cpc = "recv"
        /\ reads = 0
        /\ conns[client].c2s = json_dumps(call)
        /\ conns'[client].c2s = << >> )
      => /\ spc' = "exec"
         /\ command' = LoadBytes(json_dumps(call)).val ]_vars

(***************************************************************************)
(* C23. get_qgis_connection returns the cached manager only when the probe *)
(* on it has returned a result, the manager and its socket as they were.   *)
(* When the probe has failed the cached manager is dropped, its socket     *)
(* cleared, and a new manager is created and connected on a new            *)
(* connection; when that connect fails the call fails, the manager left    *)
(* without a socket. A manager that get_qgis_connection has returned holds *)
(* a socket. A call that finds a manager without a socket tries to connect *)
(* again.                                                                  *)
(***************************************************************************)
C23_ProbeBeforeReuse ==
  /\ [][ ( gpc = "probe" /\ gpc' = "idle" )
          => /\ outcome.kind = "result"
             /\ outcome'.kind = "got"
             /\ qgis_connection'
             /\ sock' = sock ]_vars
  /\ [][ ( gpc = "probe" /\ outcome.kind = "error" /\ gpc' # gpc )
          => /\ gpc' = "create"
             /\ ~qgis_connection'
             /\ sock' = 0 ]_vars
  /\ [][ ( gpc = "create" /\ gpc' # gpc )
          => /\ gpc' = "idle"
             /\ qgis_connection'
             /\ \/ /\ outcome'.kind = "got"
                   /\ sock' # 0
                   /\ conns[sock'].cli = "none"
                   /\ conns'[sock'].cli = "open"
                \/ /\ outcome'.kind = "error"
                   /\ sock' = 0 ]_vars
  /\ [][ ( gpc = "probe" /\ outcome = NoOutcome /\ sock = 0 /\ calls' = calls + 1 )
          => \/ sock' # 0 /\ conns'[sock'].cli = "open" /\ cpc' = "send"
             \/ sock' = 0 /\ outcome' = Error(NotConnected) ]_vars
  /\ []( outcome.kind = "got" => ( qgis_connection /\ sock # 0 ) )

\* C23's case: the probe on the cached manager failed, and the manager
\* returned is a new one on a second connection
C23_Witness ==
  /\ outcome.kind = "got"
  /\ calls = 1
  /\ sock = 2
  /\ conns[1].cli # "none"

(***************************************************************************)
(* C24. A send_command call that ends on a response it has read from its   *)
(* socket ends on the response to its own command: the result it returns   *)
(* is the result the server computes for that command, and the message it  *)
(* fails with is that of the server's error response to that command.      *)
(***************************************************************************)
\* the response execute_command gives to the command of the call in progress
ResponseToCall == execute_command(LoadBytes(json_dumps(call)).val, project).response

EndsOnResponse ==
  /\ cpc = "recv"
  /\ cpc' = "idle"
  /\ Len(conns'[sock].s2c) < Len(conns[sock].s2c)

C24_OwnResponse ==
  [][ EndsOnResponse
      => /\ outcome'.kind = "result"
            => /\ DictGet(ResponseToCall, "status", None) = Str("success")
               /\ outcome'.val = DictGet(ResponseToCall, "result", EmptyObj)
         /\ outcome'.kind = "error"
            => /\ DictGet(ResponseToCall, "status", None) = Str("error")
               /\ outcome'.val = DictGet(ResponseToCall, "message", None) ]_vars

\* C24's case: after a probe that was answered, a tool's command on the same
\* connection has been answered and the call has returned its result
C24_Witness ==
  /\ calls = 2
  /\ sock = 1
  /\ dispatched = 2
  /\ cpc = "idle"
  /\ outcome.kind = "result"
  /\ outcome.val = get_layers(EmptyObj, project).val

=============================================================================
